---- MODULE Spec2Model ----
(***************************************************************************)
(* Model of the encoder builder (src/encoding/evm/encoder_builder.rs) and  *)
(* of the tycho-encode binary (src/bin/tycho-encode.rs).                   *)
(*                                                                         *)
(* The builder methods take `self` by value and are modelled as operators  *)
(* from a builder value (and arguments) to what they return.  The actions  *)
(* apply them either as an arbitrary library caller would (caller = "lib") *)
(* or as the steps of `main` do (caller = "cli").                          *)
(***************************************************************************)
EXTENDS Integers, Sequences, FiniteSets, TLC

VARIABLES
    caller,        \* "lib": arbitrary user of the builder; "cli": the binary's main
    builder,       \* Option<EVMEncoderBuilder>: None once moved into a call that returned no builder
    encoder,       \* Option<EVMTychoEncoder>: the last encoder returned by build()
    op,            \* name of the last operation
    args,          \* arguments of the last operation
    pre,           \* the builder the last operation was called on
    calls,         \* constructor calls made by the last operation, in order
    ret,           \* what the last operation returned
    lastSet,       \* history: strategy set most recently, by what, and with which chain
    cli,           \* parsed command line (Commands)
    stdin,         \* content of standard input
    buffer,        \* main's `buffer`
    solution,      \* main's `solution`
    transactions,  \* main's `transactions`
    pc,            \* position of main
    steps,         \* history: steps of main that succeeded, in order
    stdout         \* what main has written to standard output

cliVars == <<cli, stdin, buffer, solution, transactions, pc, steps, stdout>>
vars == <<caller, builder, encoder, op, args, pre, calls, ret, lastSet,
          cli, stdin, buffer, solution, transactions, pc, steps, stdout>>

----------------------------------------------------------------------------
(* Bounds *)

MaxLen == 3          \* longest standard input, in characters
MaxSolutions == 2    \* longest list of solutions handed to the facade

----------------------------------------------------------------------------
(* Option and Result values *)

None == [tag |-> "None"]
Some(x) == [tag |-> "Some", v |-> x]
IsSome(o) == o.tag = "Some"

Ok(x) == [ok |-> TRUE, val |-> x]
Err(e) == [ok |-> FALSE, err |-> e]

FatalError(m) == [kind |-> "FatalError", msg |-> m]

----------------------------------------------------------------------------
(* Inputs *)

Chains == {"Ethereum", "Base"}

\* Configuration sources: no path (embedded default), a well-formed file,
\* a malformed file, a path with no file behind it.
Paths == {None, Some("good.json"), Some("malformed.json"), Some("missing.json")}

Keys == {"validKey", "malformedKey"}

\* Solutions: S1 has one swap consuming the whole input, S2 has two swaps
\* (a split), S3 names a venue no registry knows.
Solutions == {"S1", "S2", "S3"}

----------------------------------------------------------------------------
(* Collaborators outside the two source files, modelled from the spec *)

FileState(path) ==
    IF path = Some("good.json") THEN "ok"
    ELSE IF path = Some("malformed.json") THEN "malformed"
    ELSE "missing"

\* spec 4.1, 6: built from a file path or the embedded default table;
\* a missing or malformed file is a fatal configuration error.
SwapEncoderRegistry_new(executors_file_path, c) ==
    IF executors_file_path = None
    THEN Ok([source |-> "default", chain |-> c])
    ELSE IF FileState(executors_file_path) = "ok"
    THEN Ok([source |-> executors_file_path.v, chain |-> c])
    ELSE Err([kind |-> "ConfigurationError", msg |-> FileState(executors_file_path)])

\* spec 4.4 step 5, 7: a malformed key is a fatal SigningError.
SplitSwapStrategyEncoder_new(c, registry, swapper_pk) ==
    IF IsSome(swapper_pk) /\ swapper_pk.v = "malformedKey"
    THEN Err([kind |-> "SigningError", msg |-> "malformed private key"])
    ELSE Ok([kind |-> "SplitSwap", chain |-> c, registry |-> registry,
             signer |-> swapper_pk])

\* spec 4.3
ExecutorStrategyEncoder_new(registry) ==
    [kind |-> "Executor", registry |-> registry]

\* spec 2, 4.5: the facade holds one configured strategy encoder.
EVMTychoEncoder_new(c, strategy) ==
    Ok([chain |-> c, strategy_encoder |-> strategy])

----------------------------------------------------------------------------
(* EVMEncoderBuilder *)

new == [chain |-> None, strategy |-> None]

chain(self, c) == [self EXCEPT !.chain = Some(c)]

\* Variant: an earlier strategy is kept.
strategy_encoder_KeepFirst(self, strategy) ==
    IF IsSome(self.strategy) THEN self ELSE [self EXCEPT !.strategy = Some(strategy)]

strategy_encoder(self, strategy) == [self EXCEPT !.strategy = Some(strategy)]

\* Variant: a registry that failed to construct is passed over and the
\* builder is returned as it was.
tycho_router_IgnoreRegistryError(self, executors_file_path) ==
    IF IsSome(self.chain)
    THEN LET c == self.chain.v
             swap_encoder_registry == SwapEncoderRegistry_new(executors_file_path, c)
             c1 == [fn |-> "SwapEncoderRegistry::new", chain |-> c,
                    out |-> swap_encoder_registry]
         IN  IF ~swap_encoder_registry.ok
             THEN [res |-> Ok(self), calls |-> <<c1>>]
             ELSE LET strategy == SplitSwapStrategyEncoder_new(c, swap_encoder_registry.val, None)
                      c2 == [fn |-> "SplitSwapStrategyEncoder::new", chain |-> c,
                             out |-> strategy]
                  IN  IF ~strategy.ok
                      THEN [res |-> Err(strategy.err), calls |-> <<c1, c2>>]
                      ELSE [res |-> Ok([chain |-> Some(c), strategy |-> Some(strategy.val)]),
                            calls |-> <<c1, c2>>]
    ELSE [res |-> Err(FatalError("Please set the chain before setting the tycho router")),
          calls |-> <<>>]

tycho_router(self, executors_file_path) ==
    IF IsSome(self.chain)
    THEN LET c == self.chain.v
             swap_encoder_registry == SwapEncoderRegistry_new(executors_file_path, c)
             c1 == [fn |-> "SwapEncoderRegistry::new", chain |-> c,
                    out |-> swap_encoder_registry]
         IN  IF ~swap_encoder_registry.ok
             THEN [res |-> Err(swap_encoder_registry.err), calls |-> <<c1>>]
             ELSE LET strategy == SplitSwapStrategyEncoder_new(c, swap_encoder_registry.val, None)
                      c2 == [fn |-> "SplitSwapStrategyEncoder::new", chain |-> c,
                             out |-> strategy]
                  IN  IF ~strategy.ok
                      THEN [res |-> Err(strategy.err), calls |-> <<c1, c2>>]
                      ELSE [res |-> Ok([chain |-> Some(c), strategy |-> Some(strategy.val)]),
                            calls |-> <<c1, c2>>]
    ELSE [res |-> Err(FatalError("Please set the chain before setting the tycho router")),
          calls |-> <<>>]

\* Variant: a strategy that failed to construct is passed over and the
\* builder is returned as it was.
tycho_router_with_permit2_IgnoreKeyError(self, executors_file_path, swapper_pk) ==
    IF IsSome(self.chain)
    THEN LET c == self.chain.v
             swap_encoder_registry == SwapEncoderRegistry_new(executors_file_path, c)
             c1 == [fn |-> "SwapEncoderRegistry::new", chain |-> c,
                    out |-> swap_encoder_registry]
         IN  IF ~swap_encoder_registry.ok
             THEN [res |-> Err(swap_encoder_registry.err), calls |-> <<c1>>]
             ELSE LET strategy == SplitSwapStrategyEncoder_new(c, swap_encoder_registry.val,
                                                               Some(swapper_pk))
                      c2 == [fn |-> "SplitSwapStrategyEncoder::new", chain |-> c,
                             out |-> strategy]
                  IN  IF ~strategy.ok
                      THEN [res |-> Ok(self), calls |-> <<c1, c2>>]
                      ELSE [res |-> Ok([chain |-> Some(c), strategy |-> Some(strategy.val)]),
                            calls |-> <<c1, c2>>]
    ELSE [res |-> Err(FatalError("Please set the chain before setting the tycho router")),
          calls |-> <<>>]

\* Variant: the signer key is not handed to the strategy.
tycho_router_with_permit2_NoKey(self, executors_file_path, swapper_pk) ==
    IF IsSome(self.chain)
    THEN LET c == self.chain.v
             swap_encoder_registry == SwapEncoderRegistry_new(executors_file_path, c)
             c1 == [fn |-> "SwapEncoderRegistry::new", chain |-> c,
                    out |-> swap_encoder_registry]
         IN  IF ~swap_encoder_registry.ok
             THEN [res |-> Err(swap_encoder_registry.err), calls |-> <<c1>>]
             ELSE LET strategy == SplitSwapStrategyEncoder_new(c, swap_encoder_registry.val, None)
                      c2 == [fn |-> "SplitSwapStrategyEncoder::new", chain |-> c,
                             out |-> strategy]
                  IN  IF ~strategy.ok
                      THEN [res |-> Err(strategy.err), calls |-> <<c1, c2>>]
                      ELSE [res |-> Ok([chain |-> Some(c), strategy |-> Some(strategy.val)]),
                            calls |-> <<c1, c2>>]
    ELSE [res |-> Err(FatalError("Please set the chain before setting the tycho router")),
          calls |-> <<>>]

tycho_router_with_permit2(self, executors_file_path, swapper_pk) ==
    IF IsSome(self.chain)
    THEN LET c == self.chain.v
             swap_encoder_registry == SwapEncoderRegistry_new(executors_file_path, c)
             c1 == [fn |-> "SwapEncoderRegistry::new", chain |-> c,
                    out |-> swap_encoder_registry]
         IN  IF ~swap_encoder_registry.ok
             THEN [res |-> Err(swap_encoder_registry.err), calls |-> <<c1>>]
             ELSE LET strategy == SplitSwapStrategyEncoder_new(c, swap_encoder_registry.val,
                                                               Some(swapper_pk))
                      c2 == [fn |-> "SplitSwapStrategyEncoder::new", chain |-> c,
                             out |-> strategy]
                  IN  IF ~strategy.ok
                      THEN [res |-> Err(strategy.err), calls |-> <<c1, c2>>]
                      ELSE [res |-> Ok([chain |-> Some(c), strategy |-> Some(strategy.val)]),
                            calls |-> <<c1, c2>>]
    ELSE [res |-> Err(FatalError("Please set the chain before setting the tycho router")),
          calls |-> <<>>]

\* Variant: an unset chain is taken to be Ethereum.
direct_execution_DefaultChain(self, executors_file_path) ==
    LET c == IF IsSome(self.chain) THEN self.chain.v ELSE "Ethereum"
        swap_encoder_registry == SwapEncoderRegistry_new(executors_file_path, c)
        c1 == [fn |-> "SwapEncoderRegistry::new", chain |-> c,
               out |-> swap_encoder_registry]
    IN  IF ~swap_encoder_registry.ok
        THEN [res |-> Err(swap_encoder_registry.err), calls |-> <<c1>>]
        ELSE LET strategy == ExecutorStrategyEncoder_new(swap_encoder_registry.val)
                 c2 == [fn |-> "ExecutorStrategyEncoder::new", chain |-> c,
                        out |-> Ok(strategy)]
             IN  [res |-> Ok([chain |-> Some(c), strategy |-> Some(strategy)]),
                  calls |-> <<c1, c2>>]

direct_execution(self, executors_file_path) ==
    IF IsSome(self.chain)
    THEN LET c == self.chain.v
             swap_encoder_registry == SwapEncoderRegistry_new(executors_file_path, c)
             c1 == [fn |-> "SwapEncoderRegistry::new", chain |-> c,
                    out |-> swap_encoder_registry]
         IN  IF ~swap_encoder_registry.ok
             THEN [res |-> Err(swap_encoder_registry.err), calls |-> <<c1>>]
             ELSE LET strategy == ExecutorStrategyEncoder_new(swap_encoder_registry.val)
                      c2 == [fn |-> "ExecutorStrategyEncoder::new", chain |-> c,
                             out |-> Ok(strategy)]
                  IN  [res |-> Ok([chain |-> Some(c), strategy |-> Some(strategy)]),
                       calls |-> <<c1, c2>>]
    ELSE [res |-> Err(FatalError("Please set the chain before setting the strategy")),
          calls |-> <<>>]

\* Variant: only the strategy is required, an unset chain is taken to be Ethereum.
build_DefaultChain(self) ==
    IF IsSome(self.strategy)
    THEN LET c == IF IsSome(self.chain) THEN self.chain.v ELSE "Ethereum"
             e == EVMTychoEncoder_new(c, self.strategy.v)
         IN  [res |-> e,
              calls |-> <<[fn |-> "EVMTychoEncoder::new", chain |-> c,
                           strategy |-> self.strategy.v, out |-> e]>>]
    ELSE [res |-> Err(FatalError("Please set the chain and strategy before building the encoder")),
          calls |-> <<>>]

build(self) ==
    IF IsSome(self.chain) /\ IsSome(self.strategy)
    THEN LET e == EVMTychoEncoder_new(self.chain.v, self.strategy.v)
         IN  [res |-> e,
              calls |-> <<[fn |-> "EVMTychoEncoder::new", chain |-> self.chain.v,
                           strategy |-> self.strategy.v, out |-> e]>>]
    ELSE [res |-> Err(FatalError("Please set the chain and strategy before building the encoder")),
          calls |-> <<>>]

----------------------------------------------------------------------------
(* Strategy encoders and the facade, modelled from the spec *)

Swaps(sol) == IF sol = "S2" THEN 2 ELSE 1
VenueKnown(sol) == sol # "S3"

\* spec 4.3, 4.4, 7: one solution to one transaction, or an error.
encode_strategy(strategy, sol) ==
    IF strategy.kind = "Custom"
    THEN Ok([to |-> "custom", value |-> 0, data |-> <<"custom", sol>>])
    ELSE IF ~VenueKnown(sol)
    THEN Err([kind |-> "UnsupportedProtocolError", msg |-> sol])
    ELSE IF strategy.kind = "Executor"
    THEN IF Swaps(sol) # 1
         THEN Err([kind |-> "InvalidSolutionError", msg |-> sol])
         ELSE Ok([to |-> "executor", value |-> 0,
                  data |-> <<"swap", strategy.registry.source, sol>>])
    ELSE Ok([to |-> "router", value |-> 0,
             data |-> <<"split", strategy.registry.source, sol,
                        IF IsSome(strategy.signer) THEN "signature" ELSE "nosignature">>])

\* spec 4.5: order-preserving, one output per input, the first error aborts.
RECURSIVE encode_from(_, _, _, _)
encode_from(enc, solutions, i, acc) ==
    IF i > Len(solutions) THEN Ok(acc)
    ELSE LET t == encode_strategy(enc.strategy_encoder, solutions[i])
         IN  IF ~t.ok THEN Err(t.err)
             ELSE encode_from(enc, solutions, i + 1, Append(acc, t.val))

encode_router_calldata(enc, solutions) == encode_from(enc, solutions, 1, <<>>)

----------------------------------------------------------------------------
(* History of what set the strategy *)

StrategyConstructors == {"SplitSwapStrategyEncoder::new", "ExecutorStrategyEncoder::new"}

NothingSet == [strategy |-> None, by |-> "none", chain |-> None, replaced |-> FALSE]

\* The strategy a shortcut constructed, with the chain it gave the registry.
Constructed(cs, name, replaced) ==
    IF \E i \in 1..Len(cs) : cs[i].fn \in StrategyConstructors /\ cs[i].out.ok
    THEN LET i == CHOOSE j \in 1..Len(cs) : cs[j].fn \in StrategyConstructors /\ cs[j].out.ok
         IN  [strategy |-> Some(cs[i].out.val), by |-> name, chain |-> Some(cs[1].chain),
              replaced |-> replaced]
    ELSE NothingSet

----------------------------------------------------------------------------
(* Inputs of the library caller *)

\* Strategies a caller may hand to strategy_encoder.
ManualStrategies ==
    {[kind |-> "Custom"],
     [kind |-> "SplitSwap", chain |-> "Ethereum",
      registry |-> [source |-> "default", chain |-> "Ethereum"], signer |-> None]}

SolutionLists == UNION {[1..n -> Solutions] : n \in 0..MaxSolutions}

NoArgs == [none |-> TRUE]

----------------------------------------------------------------------------
(* The library caller's operations (caller = "lib") *)

InitLib ==
    /\ caller = "lib"
    /\ builder = None
    /\ encoder = None
    /\ op = "none" /\ args = NoArgs /\ pre = None /\ calls = <<>> /\ ret = Ok("unit")
    /\ lastSet = NothingSet
    /\ cli = NoArgs /\ stdin = <<>> /\ buffer = <<>> /\ solution = None
    /\ transactions = <<>> /\ pc = "none" /\ steps = <<>> /\ stdout = <<>>

New ==
    /\ caller = "lib"
    /\ builder' = Some(new)
    /\ op' = "new" /\ args' = NoArgs /\ pre' = None /\ calls' = <<>>
    /\ ret' = Ok(new)
    /\ lastSet' = NothingSet
    /\ UNCHANGED <<caller, encoder>>
    /\ UNCHANGED cliVars

Chain ==
    /\ caller = "lib"
    /\ IsSome(builder)
    /\ \E c \in Chains :
         /\ builder' = Some(chain(builder.v, c))
         /\ op' = "chain" /\ args' = [chain |-> c] /\ pre' = builder /\ calls' = <<>>
         /\ ret' = Ok(chain(builder.v, c))
    /\ UNCHANGED <<caller, encoder, lastSet>>
    /\ UNCHANGED cliVars

StrategyEncoder ==
    /\ caller = "lib"
    /\ IsSome(builder)
    /\ \E s \in ManualStrategies :
         /\ builder' = Some(strategy_encoder(builder.v, s))
         /\ op' = "strategy_encoder" /\ args' = [strategy |-> s]
         /\ pre' = builder /\ calls' = <<>>
         /\ ret' = Ok(strategy_encoder(builder.v, s))
         /\ lastSet' = [strategy |-> Some(s), by |-> "strategy_encoder", chain |-> None,
                        replaced |-> IsSome(builder.v.strategy)]
    /\ UNCHANGED <<caller, encoder>>
    /\ UNCHANGED cliVars

\* What a shortcut call leaves behind: `r` is what the method returned.
Shortcut(name, a, r) ==
    /\ builder' = IF r.res.ok THEN Some(r.res.val) ELSE None
    /\ op' = name /\ args' = a /\ pre' = builder /\ calls' = r.calls
    /\ ret' = r.res
    /\ lastSet' = LET set == Constructed(r.calls, name, IsSome(builder.v.strategy))
                  IN  IF r.res.ok /\ set # NothingSet THEN set ELSE lastSet
    /\ UNCHANGED <<caller, encoder>>

TychoRouter ==
    /\ caller = "lib"
    /\ IsSome(builder)
    /\ \E p \in Paths :
         Shortcut("tycho_router", [executors_file_path |-> p], tycho_router(builder.v, p))
    /\ UNCHANGED cliVars

TychoRouterWithPermit2 ==
    /\ caller = "lib"
    /\ IsSome(builder)
    /\ \E p \in Paths, k \in Keys :
         Shortcut("tycho_router_with_permit2",
                  [executors_file_path |-> p, swapper_pk |-> k],
                  tycho_router_with_permit2(builder.v, p, k))
    /\ UNCHANGED cliVars

DirectExecution ==
    /\ caller = "lib"
    /\ IsSome(builder)
    /\ \E p \in Paths :
         Shortcut("direct_execution", [executors_file_path |-> p],
                  direct_execution(builder.v, p))
    /\ UNCHANGED cliVars

Build ==
    /\ caller = "lib"
    /\ IsSome(builder)
    /\ LET r == build(builder.v)
       IN  /\ builder' = None
           /\ encoder' = IF r.res.ok THEN Some(r.res.val) ELSE None
           /\ op' = "build" /\ args' = NoArgs /\ pre' = builder /\ calls' = r.calls
           /\ ret' = r.res
    /\ UNCHANGED <<caller, lastSet>>
    /\ UNCHANGED cliVars

Encode ==
    /\ caller = "lib"
    /\ IsSome(encoder)
    /\ \E sols \in SolutionLists :
         /\ op' = "encode_router_calldata" /\ args' = [solutions |-> sols]
         /\ ret' = encode_router_calldata(encoder.v, sols)
    /\ pre' = None /\ calls' = <<>>
    /\ UNCHANGED <<caller, builder, encoder, lastSet>>
    /\ UNCHANGED cliVars

----------------------------------------------------------------------------
(* The binary: src/bin/tycho-encode.rs *)

\* Characters of standard input: white space, the JSON text of solution S1,
\* S2 or S3 (each taken as one character), and a character that is no JSON.
White == {" "}
JsonOf == [A |-> "S1", B |-> "S2", C |-> "S3"]
Alphabet == White \cup DOMAIN JsonOf \cup {"x"}

Texts == UNION {[1..n -> Alphabet] : n \in 0..MaxLen}

\* Standard input is a text, or bytes that are no UTF-8 text.
StdinContents == {Ok(t) : t \in Texts} \cup {Err("stream did not contain valid UTF-8")}

Commands ==
    {[cmd |-> "TychoRouter", config_path |-> p] : p \in Paths}
    \cup {[cmd |-> "TychoRouterPermit2", config_path |-> p, swapper_pk |-> k] :
            p \in Paths, k \in Keys}
    \cup {[cmd |-> "DirectExecution", config_path |-> p] : p \in Paths}

RECURSIVE trim_start(_)
trim_start(t) ==
    IF t # <<>> /\ Head(t) \in White THEN trim_start(Tail(t)) ELSE t

RECURSIVE trim_end(_)
trim_end(t) ==
    IF t # <<>> /\ t[Len(t)] \in White THEN trim_end(SubSeq(t, 1, Len(t) - 1)) ELSE t

\* str::trim
trim(t) == trim_end(trim_start(t))

\* serde_json::from_str::<Solution>: one JSON document of a Solution,
\* white space allowed around it, nothing else.
from_str(t) ==
    LET d == trim(t)
    IN  IF Len(d) = 1 /\ d[1] \in DOMAIN JsonOf
        THEN Ok(JsonOf[d[1]])
        ELSE Err([kind |-> "serde_json::Error", msg |-> "parse"])

\* hex::encode with the "0x" prefix
Hex(x) == <<"0x", x>>

\* Variant: the solution is left out of the list.
MainSolutions_Empty(sol) == <<>>

\* The list main hands to the facade
MainSolutions(sol) == <<sol>>

InitCli ==
    /\ caller = "cli"
    /\ cli \in Commands
    /\ stdin \in StdinContents
    /\ builder = None
    /\ encoder = None
    /\ op = "none" /\ args = NoArgs /\ pre = None /\ calls = <<>> /\ ret = Ok("unit")
    /\ lastSet = NothingSet
    /\ buffer = <<>> /\ solution = None
    /\ transactions = <<>> /\ pc = "read" /\ steps = <<>> /\ stdout = <<>>

Init == InitLib \/ InitCli

\* lines 73-76
MainRead ==
    /\ caller = "cli" /\ pc = "read"
    /\ IF stdin.ok
       THEN /\ buffer' = stdin.val
            /\ pc' = "check"
            /\ steps' = Append(steps, "read")
            /\ ret' = Ok("unit")
       ELSE /\ pc' = "error"
            /\ ret' = Err([kind |-> "io::Error", msg |-> stdin.err])
            /\ UNCHANGED <<buffer, steps>>
    /\ op' = "read_to_string" /\ args' = NoArgs /\ pre' = None /\ calls' = <<>>
    /\ UNCHANGED <<caller, builder, encoder, lastSet, cli, stdin, solution,
                   transactions, stdout>>

\* Variant: only an input of no characters at all is rejected.
MainCheckEmpty_NoTrim ==
    /\ caller = "cli" /\ pc = "check"
    /\ IF buffer = <<>>
       THEN /\ pc' = "error"
            /\ ret' = Err([kind |-> "String",
                           msg |-> "No input provided. Expected JSON input on stdin."])
            /\ UNCHANGED steps
       ELSE /\ pc' = "parse"
            /\ steps' = Append(steps, "nonempty")
            /\ ret' = Ok("unit")
    /\ op' = "is_empty" /\ args' = NoArgs /\ pre' = None /\ calls' = <<>>
    /\ UNCHANGED <<caller, builder, encoder, lastSet, cli, stdin, buffer, solution,
                   transactions, stdout>>

\* lines 78-80
MainCheckEmpty ==
    /\ caller = "cli" /\ pc = "check"
    /\ IF trim(buffer) = <<>>
       THEN /\ pc' = "error"
            /\ ret' = Err([kind |-> "String",
                           msg |-> "No input provided. Expected JSON input on stdin."])
            /\ UNCHANGED steps
       ELSE /\ pc' = "parse"
            /\ steps' = Append(steps, "nonempty")
            /\ ret' = Ok("unit")
    /\ op' = "is_empty" /\ args' = NoArgs /\ pre' = None /\ calls' = <<>>
    /\ UNCHANGED <<caller, builder, encoder, lastSet, cli, stdin, buffer, solution,
                   transactions, stdout>>

\* line 81
MainParse ==
    /\ caller = "cli" /\ pc = "parse"
    /\ LET r == from_str(buffer)
       IN  /\ ret' = r
           /\ IF r.ok
              THEN /\ solution' = Some(r.val)
                   /\ pc' = "builder"
                   /\ steps' = Append(steps, "parse")
              ELSE /\ pc' = "error"
                   /\ UNCHANGED <<solution, steps>>
    /\ op' = "from_str" /\ args' = NoArgs /\ pre' = None /\ calls' = <<>>
    /\ UNCHANGED <<caller, builder, encoder, lastSet, cli, stdin, buffer,
                   transactions, stdout>>

\* lines 70, 83
MainBuilder ==
    /\ caller = "cli" /\ pc = "builder"
    /\ builder' = Some(chain(new, "Ethereum"))
    /\ op' = "chain" /\ args' = [chain |-> "Ethereum"] /\ pre' = Some(new)
    /\ calls' = <<>>
    /\ ret' = Ok(chain(new, "Ethereum"))
    /\ lastSet' = NothingSet
    /\ pc' = "shortcut"
    /\ steps' = Append(steps, "builder")
    /\ UNCHANGED <<caller, encoder, cli, stdin, buffer, solution, transactions, stdout>>

\* lines 85-91
MainShortcut ==
    /\ caller = "cli" /\ pc = "shortcut"
    /\ LET r == IF cli.cmd = "TychoRouter"
                THEN tycho_router(builder.v, cli.config_path)
                ELSE IF cli.cmd = "TychoRouterPermit2"
                THEN tycho_router_with_permit2(builder.v, cli.config_path, cli.swapper_pk)
                ELSE direct_execution(builder.v, cli.config_path)
           name == IF cli.cmd = "TychoRouter" THEN "tycho_router"
                   ELSE IF cli.cmd = "TychoRouterPermit2" THEN "tycho_router_with_permit2"
                   ELSE "direct_execution"
           a == IF cli.cmd = "TychoRouterPermit2"
                THEN [executors_file_path |-> cli.config_path, swapper_pk |-> cli.swapper_pk]
                ELSE [executors_file_path |-> cli.config_path]
       IN  /\ Shortcut(name, a, r)
           /\ pc' = IF r.res.ok THEN "build" ELSE "error"
           /\ steps' = IF r.res.ok THEN Append(steps, "shortcut") ELSE steps
    /\ UNCHANGED <<cli, stdin, buffer, solution, transactions, stdout>>

\* line 92
MainBuild ==
    /\ caller = "cli" /\ pc = "build"
    /\ LET r == build(builder.v)
       IN  /\ builder' = None
           /\ encoder' = IF r.res.ok THEN Some(r.res.val) ELSE None
           /\ op' = "build" /\ args' = NoArgs /\ pre' = builder /\ calls' = r.calls
           /\ ret' = r.res
           /\ pc' = IF r.res.ok THEN "encode" ELSE "error"
           /\ steps' = IF r.res.ok THEN Append(steps, "build") ELSE steps
    /\ UNCHANGED <<caller, lastSet, cli, stdin, buffer, solution, transactions, stdout>>

\* line 93
MainEncode ==
    /\ caller = "cli" /\ pc = "encode"
    /\ LET r == encode_router_calldata(encoder.v, MainSolutions(solution.v))
       IN  /\ ret' = r
           /\ op' = "encode_router_calldata"
           /\ args' = [solutions |-> MainSolutions(solution.v)]
           /\ IF r.ok
              THEN /\ transactions' = r.val
                   /\ pc' = "print"
                   /\ steps' = Append(steps, "encode")
              ELSE /\ pc' = "error"
                   /\ UNCHANGED <<transactions, steps>>
    /\ pre' = None /\ calls' = <<>>
    /\ UNCHANGED <<caller, builder, encoder, lastSet, cli, stdin, buffer, solution, stdout>>

\* lines 94-106: indexing an empty `transactions` panics
MainPrint ==
    /\ caller = "cli" /\ pc = "print"
    /\ IF Len(transactions) = 0
       THEN /\ pc' = "panic"
            /\ UNCHANGED <<stdout, steps>>
       ELSE /\ stdout' = Append(stdout, [to |-> Hex(transactions[1].to),
                                         value |-> Hex(transactions[1].value),
                                         data |-> Hex(transactions[1].data)])
            /\ pc' = "done"
            /\ steps' = Append(steps, "print")
    /\ op' = "println" /\ args' = NoArgs /\ pre' = None /\ calls' = <<>>
    /\ ret' = Ok("unit")
    /\ UNCHANGED <<caller, builder, encoder, lastSet, cli, stdin, buffer, solution,
                   transactions>>

Next ==
    \/ New
    \/ Chain
    \/ StrategyEncoder
    \/ TychoRouter
    \/ TychoRouterWithPermit2
    \/ DirectExecution
    \/ Build
    \/ Encode
    \/ MainRead
    \/ MainCheckEmpty
    \/ MainParse
    \/ MainBuilder
    \/ MainShortcut
    \/ MainBuild
    \/ MainEncode
    \/ MainPrint

Spec == Init /\ [][Next]_vars

----------------------------------------------------------------------------
(* Properties *)

ShortcutOps == {"tycho_router", "tycho_router_with_permit2", "direct_execution"}

Called(name) == \E i \in 1..Len(calls) : calls[i].fn = name

Failed(name) == \E i \in 1..Len(calls) : calls[i].fn = name /\ ~calls[i].out.ok

FailureOf(name) ==
    calls[CHOOSE i \in 1..Len(calls) : calls[i].fn = name /\ ~calls[i].out.ok].out.err

\* C1: build() returns the FatalError whenever the chain or the strategy is
\* unset, and calls EVMTychoEncoder::new only when both are set.
C1_BuildNeedsChainAndStrategy ==
    op = "build" =>
        /\ (~IsSome(pre.v.chain) \/ ~IsSome(pre.v.strategy)) =>
              /\ ~ret.ok
              /\ ret.err.kind = "FatalError"
              /\ ~Called("EVMTychoEncoder::new")
        /\ Called("EVMTychoEncoder::new") =>
              /\ IsSome(pre.v.chain) /\ IsSome(pre.v.strategy)
              /\ calls[1].chain = pre.v.chain.v
              /\ calls[1].strategy = pre.v.strategy.v

\* build() was called with a strategy but no chain, and refused.
C1_Witness ==
    /\ op = "build" /\ ~IsSome(pre.v.chain) /\ IsSome(pre.v.strategy)
    /\ ~ret.ok

\* C2: a shortcut called while the chain is unset returns a FatalError,
\* constructs neither a registry nor a strategy and returns no builder; a
\* shortcut returns a builder only when the chain had been set.
C2_ShortcutNeedsChain ==
    op \in ShortcutOps =>
        /\ ~IsSome(pre.v.chain) =>
              /\ ~ret.ok
              /\ ret.err.kind = "FatalError"
              /\ calls = <<>>
              /\ builder = None
        /\ ret.ok => IsSome(pre.v.chain) /\ builder.v.chain = pre.v.chain

\* direct_execution was called on a builder without a chain.
C2_Witness ==
    /\ op = "direct_execution" /\ ~IsSome(pre.v.chain)
    /\ ~ret.ok

\* C3: when the registry fails to construct, the shortcut returns that error
\* and no builder, constructs no strategy, and the binary stops there, before
\* build() and encode.
C3_RegistryFailureAtConstruction ==
    (op \in ShortcutOps /\ Failed("SwapEncoderRegistry::new")) =>
        /\ ~ret.ok
        /\ ret.err = FailureOf("SwapEncoderRegistry::new")
        /\ Len(calls) = 1
        /\ builder = None
        /\ caller = "cli" => pc = "error" /\ encoder = None /\ stdout = <<>>

\* tycho_router was given a configuration file that does not parse.
C3_Witness ==
    /\ op = "tycho_router" /\ Failed("SwapEncoderRegistry::new")
    /\ args.executors_file_path = Some("malformed.json")

\* C4: when tycho_router_with_permit2 is given a malformed key and the
\* strategy fails to construct, the method returns that error and no builder,
\* and the binary builds no encoder and writes no transaction.
C4_MalformedKeyIsFatal ==
    (op = "tycho_router_with_permit2" /\ Failed("SplitSwapStrategyEncoder::new")) =>
        /\ ~ret.ok
        /\ ret.err = FailureOf("SplitSwapStrategyEncoder::new")
        /\ builder = None
        /\ caller = "cli" => pc = "error" /\ encoder = None /\ stdout = <<>>

\* The binary ran TychoRouterPermit2 with a malformed key.
C4_Witness ==
    /\ caller = "cli" /\ op = "tycho_router_with_permit2"
    /\ args.swapper_pk = "malformedKey"
    /\ Failed("SplitSwapStrategyEncoder::new")

ExpectedOf(cmd) ==
    IF cmd = "TychoRouter" THEN "tycho_router"
    ELSE IF cmd = "TychoRouterPermit2" THEN "tycho_router_with_permit2"
    ELSE "direct_execution"

HasSigner(strategy) == strategy.kind = "SplitSwap" /\ IsSome(strategy.signer)

\* C5: tycho_router sets a split-swap strategy without a signer key,
\* tycho_router_with_permit2 one holding exactly the key supplied,
\* direct_execution the executor strategy; the binary's encoder has the
\* strategy of its subcommand, with a signer key iff it is TychoRouterPermit2.
C5_StrategyFixedByShortcut ==
    /\ (op \in ShortcutOps /\ ret.ok) =>
          LET s == builder.v.strategy.v
          IN  /\ op = "tycho_router" => s.kind = "SplitSwap" /\ s.signer = None
              /\ op = "tycho_router_with_permit2" =>
                    s.kind = "SplitSwap" /\ s.signer = Some(args.swapper_pk)
              /\ op = "direct_execution" => s.kind = "Executor"
    /\ (caller = "cli" /\ IsSome(encoder)) =>
          LET s == encoder.v.strategy_encoder
          IN  /\ lastSet.by = ExpectedOf(cli.cmd)
              /\ s.kind = (IF cli.cmd = "DirectExecution" THEN "Executor" ELSE "SplitSwap")
              /\ HasSigner(s) <=> cli.cmd = "TychoRouterPermit2"
              /\ HasSigner(s) => s.signer.v = cli.swapper_pk

\* The binary built an encoder for TychoRouterPermit2.
C5_Witness ==
    /\ caller = "cli" /\ IsSome(encoder)
    /\ cli.cmd = "TychoRouterPermit2"
    /\ HasSigner(encoder.v.strategy_encoder)

EncodedOk(i) == encode_strategy(encoder.v.strategy_encoder, args.solutions[i]).ok

\* C6: encode on n solutions returns an error and no results, or n
\* transactions, the i-th being the encoding of the i-th solution; the binary
\* hands over one solution and finds transactions[0] whenever encode succeeded.
C6_OneTransactionPerSolution ==
    /\ op = "encode_router_calldata" =>
          LET n == Len(args.solutions)
          IN  IF ret.ok
              THEN /\ Len(ret.val) = n
                   /\ \A i \in 1..n :
                         /\ EncodedOk(i)
                         /\ ret.val[i] = encode_strategy(encoder.v.strategy_encoder,
                                                         args.solutions[i]).val
              ELSE /\ DOMAIN ret = {"ok", "err"}
                   /\ \E i \in 1..n :
                         /\ ~EncodedOk(i)
                         /\ \A j \in 1..(i - 1) : EncodedOk(j)
                         /\ ret.err = encode_strategy(encoder.v.strategy_encoder,
                                                      args.solutions[i]).err
    /\ caller = "cli" =>
          /\ pc # "panic"
          /\ pc \in {"print", "done"} =>
                /\ Len(transactions) = 1
                /\ transactions[1] = encode_strategy(encoder.v.strategy_encoder,
                                                     solution.v).val

\* Two different solutions were encoded, in their order.
C6_Witness ==
    /\ op = "encode_router_calldata" /\ ret.ok
    /\ Len(args.solutions) = 2
    /\ args.solutions[1] # args.solutions[2]
    /\ ret.val[1] # ret.val[2]

AllSteps == <<"read", "nonempty", "parse", "builder", "shortcut", "build", "encode", "print">>

Blank(t) == \A i \in 1..Len(t) : t[i] \in White

\* C7: the binary writes the transaction only after reading a non-blank
\* input, parsing it, configuring the shortcut, build() and encode all
\* succeeded, in this order; a run that fails writes nothing, and a blank
\* input is rejected before a builder exists.
C7_OutputOnlyAfterAllSteps ==
    caller = "cli" =>
        /\ steps = SubSeq(AllSteps, 1, Len(steps))
        /\ stdout # <<>> => steps = AllSteps /\ Len(stdout) = 1 /\ pc = "done"
        /\ pc = "error" => stdout = <<>> /\ ~ret.ok /\ Len(steps) < Len(AllSteps)
        /\ (stdin.ok /\ Blank(stdin.val) /\ pc \notin {"read", "check"}) =>
              /\ pc = "error"
              /\ steps = <<"read">>
              /\ op = "is_empty"
              /\ builder = None /\ encoder = None

\* The binary wrote a transaction.
C7_Witness ==
    /\ caller = "cli" /\ pc = "done"
    /\ Len(stdout) = 1

\* C9: build() hands EVMTychoEncoder::new the strategy set by the last
\* strategy_encoder or successful shortcut call; strategy_encoder leaves the
\* chain as it was and chain() leaves the strategy as it was.
C9_LastStrategyWins ==
    /\ (op = "build" /\ Called("EVMTychoEncoder::new")) =>
          /\ IsSome(lastSet.strategy)
          /\ calls[1].strategy = lastSet.strategy.v
    /\ op = "strategy_encoder" =>
          /\ builder.v.strategy = Some(args.strategy)
          /\ builder.v.chain = pre.v.chain
    /\ op = "chain" =>
          /\ builder.v.strategy = pre.v.strategy
          /\ builder.v.chain = Some(args.chain)

\* build() succeeded with a strategy that had replaced an earlier one.
C9_Witness ==
    /\ op = "build" /\ ret.ok
    /\ lastSet.replaced

\* C10: when build() succeeds with a strategy set by a shortcut, the chain
\* handed to EVMTychoEncoder::new is the chain the shortcut constructed the
\* registry and the strategy with.
C10_EncoderChainIsShortcutChain ==
    (op = "build" /\ Called("EVMTychoEncoder::new") /\ lastSet.by \in ShortcutOps) =>
        calls[1].chain = lastSet.chain.v

====
